---- MODULE Spec2Model ----
(***************************************************************************)
(* Model of main.py: a Streamlit script that loads a CSV of technology     *)
(* descriptions, computes TF-IDF cosine similarities, builds a threshold   *)
(* graph, optionally restricts it to the neighbourhood of the nodes that   *)
(* match a keyword, draws it, and prints the top-20 most similar pairs.    *)
(*                                                                         *)
(* The script runs top to bottom; st.stop() ends the run.  Streamlit runs  *)
(* the script again whenever a widget value changes, so a session is a     *)
(* sequence of runs over the same remote CSV.                              *)
(*                                                                         *)
(* Scores are integers in units of 1/10000 (Unit = 1.0).  Strings are      *)
(* sequences of one-character strings.  Node ids are 0-based as in the     *)
(* source; texts is a 1-based sequence, so node n is labelled texts[n+1].  *)
(***************************************************************************)
EXTENDS Integers, Sequences, FiniteSets, TLC

VARIABLES csv, labelSim, run, pc, error, df, text_col, threshold,
          search_keyword, texts, similarity_matrix, G, pos, fig,
          top_pairs, top_df, emitted, fullG, prev

vars == <<csv, labelSim, run, pc, error, df, text_col, threshold,
          search_keyword, texts, similarity_matrix, G, pos, fig,
          top_pairs, top_df, emitted, fullG, prev>>

(* ------------------------------ bounds --------------------------------- *)

\* Number of runs of the script in one session.
MaxRuns == 2

(* ----------------------------- constants ------------------------------- *)

\* 1.0 in score units.
Unit == 10000

\* top_n = 20
top_n == 20

\* label[:15]
ShortLen == 15

\* st.slider(min_value=0.0, max_value=1.0, value=0.3, step=0.05)
SliderStep == 500

SliderValues == {k * SliderStep : k \in 0..(Unit \div SliderStep)}

\* The slider positions the model tries: both ends and the default 0.3.
Thresholds == {t \in SliderValues : t \in {0, 3000, Unit}}

(* ------------------------------ strings -------------------------------- *)

Space == " "

IsWordChar(c) == c # Space

\* str.strip(): drop leading and trailing whitespace.
RECURSIVE LStrip(_)
LStrip(s) ==
    IF s = <<>> THEN s
    ELSE IF Head(s) = Space THEN LStrip(Tail(s)) ELSE s

RECURSIVE RStrip(_)
RStrip(s) ==
    IF s = <<>> THEN s
    ELSE IF s[Len(s)] = Space THEN RStrip(SubSeq(s, 1, Len(s) - 1)) ELSE s

Strip(s) == RStrip(LStrip(s))

\* Variant of the substring test with the operands swapped.
Contains_reversed(kw, label) ==
    \E k \in 0..(Len(kw) - Len(label)) : SubSeq(kw, k + 1, k + Len(label)) = label

\* Python's `kw in label` on strings: kw is a contiguous substring of label.
Contains(kw, label) ==
    \E k \in 0..(Len(label) - Len(kw)) : SubSeq(label, k + 1, k + Len(kw)) = kw

\* label[:15] + "..." if len(label) > 15 else label
ShortLabel(label) ==
    IF Len(label) > ShortLen
       THEN SubSeq(label, 1, ShortLen) \o <<".", ".", ".">>
       ELSE label

(* ------------------------------ the data ------------------------------- *)

\* A CSV cell: a missing value (NaN) or a string.
NaN == [na |-> TRUE, s |-> <<>>]
Str(s) == [na |-> FALSE, s |-> s]

\* df[text_col].fillna("").astype(str)
FillNa(cell) == IF cell.na THEN <<>> ELSE cell.s

L_ab  == <<"a", "b">>
L_ba  == <<"b", "a">>
L_mix == <<"a", "b", " ", "b", "a">>
L_a   == <<"a">>

\* The remote CSV files the model tries.  A file is a function from column
\* name to the column's cells; all columns of a file have the same length.
CsvFiles ==
    { [desc |-> <<>>],
      [desc |-> <<Str(L_ab), Str(L_mix), Str(L_ba)>>,
       note |-> <<NaN, Str(<<>>), Str(L_a)>>],
      [desc |-> <<Str(L_mix), Str(L_ab), NaN, Str(L_ab)>>,
       note |-> <<Str(L_ab), Str(L_ba), Str(L_ab), Str(L_a)>>],
      [desc |-> <<Str(L_ab), Str(L_ab), Str(L_ab), Str(L_ab),
                  Str(L_mix), Str(L_mix), Str(L_mix)>>,
       note |-> <<Str(L_ab), Str(L_ab), Str(L_ab), Str(L_ab),
                  Str(L_ab), Str(L_ab), Str(L_ab)>>] }

\* What the user may type into the keyword box (before .strip()).
RawKeywords ==
    { <<>>, <<" ">>, <<"a", "b">>, <<" ", "b", "a", " ">>, <<"b", "b">> }

(* ---------------------------- vectoriser -------------------------------- *)

\* TfidfVectorizer's default token_pattern (?u)\b\w\w+\b: the maximal runs of
\* word characters that are at least two characters long.
Tokens(label) ==
    { SubSeq(label, a, b) : <<a, b>> \in
        { r \in (1..Len(label)) \X (1..Len(label)) :
            /\ r[2] - r[1] + 1 >= 2
            /\ \A k \in r[1]..r[2] : IsWordChar(label[k])
            /\ (r[1] = 1 \/ ~IsWordChar(label[r[1] - 1]))
            /\ (r[2] = Len(label) \/ ~IsWordChar(label[r[2] + 1])) } }

\* Term counts of one document.
TermVector(label) ==
    [t \in Tokens(label) |->
        Cardinality({a \in 1..Len(label) :
            /\ a + Len(t) - 1 <= Len(label)
            /\ SubSeq(label, a, a + Len(t) - 1) = t
            /\ (a = 1 \/ ~IsWordChar(label[a - 1]))
            /\ (a + Len(t) - 1 = Len(label) \/ ~IsWordChar(label[a + Len(t)])) })]

\* fit_transform raises ValueError("empty vocabulary ...") when no document
\* yields a token; this includes the corpus with no documents at all.
EmptyVocabulary(txts) == \A k \in 1..Len(txts) : Tokens(txts[k]) = {}

\* The strings that occur in the CSV files of the model.
Labels == {<<>>, L_a, L_ab, L_ba, L_mix}

\* Pairs of labels that share a token without having the same term counts:
\* their cosine lies strictly between 0 and 1 and depends on the idf weights.
MixedPairs ==
    { p \in SUBSET Labels :
        /\ Cardinality(p) = 2
        /\ \E a \in p : \E b \in p :
              /\ a # b
              /\ Tokens(a) \cap Tokens(b) # {}
              /\ TermVector(a) # TermVector(b) }

\* The scores the model tries for such pairs.  2996 and 3004 lie on either
\* side of the default threshold and both round to 0.300.
MixedScores == {2996, 3004}

\* cosine_similarity of the L2-normalised TF-IDF rows of two documents.
Cos(a, b) ==
    IF Tokens(a) \cap Tokens(b) = {} THEN 0
    ELSE IF TermVector(a) = TermVector(b) THEN Unit
    ELSE labelSim[{a, b}]

\* similarity_matrix = cosine_similarity(tfidf_matrix), indexed from 0.
SimilarityMatrix(txts) ==
    [i \in 0..(Len(txts) - 1) |->
        [j \in 0..(Len(txts) - 1) |-> Cos(txts[i + 1], txts[j + 1])]]

(* ------------------------------- graph --------------------------------- *)

\* nx.Graph()
EmptyGraph == [nodes |-> {}, label |-> <<>>, edges |-> {}, weight |-> <<>>]

\* for i in range(n): for j in range(i + 1, n): the pairs in loop order.
RECURSIVE PairsFrom(_, _, _)
PairsFrom(i, j, n) ==
    IF i >= n THEN <<>>
    ELSE IF j >= n THEN PairsFrom(i + 1, i + 2, n)
    ELSE <<(<<i, j>>)>> \o PairsFrom(i, j + 1, n)

PairSeq(n) == PairsFrom(0, 1, n)

\* G.add_node(i, label=txt) for every row.
AddNodes(g, txts) ==
    [g EXCEPT !.nodes = g.nodes \cup (0..(Len(txts) - 1)),
              !.label = [n \in 0..(Len(txts) - 1) |-> txts[n + 1]]]

\* G.add_edge(i, j, weight=w)
AddEdge(g, i, j, w) ==
    [g EXCEPT !.nodes = g.nodes \cup {i, j},
              !.edges = g.edges \cup {{i, j}},
              !.weight = [e \in g.edges \cup {{i, j}} |->
                            IF e = {i, j} THEN w ELSE g.weight[e]]]

\* Variants of the edge test: strict comparison, and comparison reversed.
EdgeQualifies_strict(score, t) == score > t

EdgeQualifies_below(score, t) == score <= t

\* if similarity_matrix[i][j] >= threshold: G.add_edge(...)
EdgeQualifies(score, t) == score >= t

RECURSIVE AddEdges(_, _, _, _)
AddEdges(g, pairs, sim, t) ==
    IF pairs = <<>> THEN g
    ELSE LET i == Head(pairs)[1]
             j == Head(pairs)[2]
             g2 == IF EdgeQualifies(sim[i][j], t)
                      THEN AddEdge(g, i, j, sim[i][j])
                      ELSE g
         IN  AddEdges(g2, Tail(pairs), sim, t)

BuildGraph(txts, sim, t) ==
    AddEdges(AddNodes(EmptyGraph, txts), PairSeq(Len(txts)), sim, t)

\* G.neighbors(n)
Neighbors(g, n) == {m \in g.nodes : {n, m} \in g.edges}

\* G.subgraph(s).copy(): the subgraph induced by the nodes of s.
Subgraph(g, s) ==
    LET ns == g.nodes \cap s
        es == {e \in g.edges : e \subseteq ns}
    IN  [nodes |-> ns,
         label |-> [n \in ns |-> g.label[n]],
         edges |-> es,
         weight |-> [e \in es |-> g.weight[e]]]

(* --------------------------- keyword filter ---------------------------- *)

\* matched_nodes = [n for n, d in G.nodes(data=True) if kw in d["label"]]
MatchedNodes(g, kw) == {n \in g.nodes : Contains(kw, g.label[n])}

Min(S) == CHOOSE x \in S : \A y \in S : x <= y

\* Variants of the loop body: without the neighbours, and without the node.
AddClosedNeighbourhood_nodeOnly(g, sub, node) == sub \cup {node}

AddClosedNeighbourhood_open(g, sub, node) == sub \cup Neighbors(g, node)

\* sub_nodes.add(node); sub_nodes.update(G.neighbors(node))
AddClosedNeighbourhood(g, sub, node) == (sub \cup {node}) \cup Neighbors(g, node)

\* for node in matched_nodes: ...
RECURSIVE SubNodes(_, _, _)
SubNodes(g, matched, sub) ==
    IF matched = {} THEN sub
    ELSE LET node == Min(matched)
         IN  SubNodes(g, matched \ {node}, AddClosedNeighbourhood(g, sub, node))

\* The graph the filter leaves in G when at least one node matches.
KeywordFilter(g, kw) == Subgraph(g, SubNodes(g, MatchedNodes(g, kw), {}))

(* ------------------------------- layout -------------------------------- *)

\* nx.spring_layout(G, seed=42): one position per node of G.  The
\* coordinates are not modelled; with the fixed seed they are a function of
\* the graph, so every node gets the same opaque value.
SpringLayout(g) == [n \in g.nodes |-> "xy"]

\* The traces handed to go.Figure: short label, hover text and degree per
\* node, and the edges that are drawn.
Figure(g, p) ==
    [node_text    |-> [n \in g.nodes |-> ShortLabel(g.label[n])],
     node_hover   |-> [n \in g.nodes |-> g.label[n]],
     node_degrees |-> [n \in g.nodes |-> Cardinality(Neighbors(g, n))],
     edges        |-> g.edges,
     pos          |-> p]

EmptyFigure == Figure(EmptyGraph, <<>>)

(* ---------------------------- ranked pairs ----------------------------- *)

\* pairs.append((i, j, score)) for every i < j with score >= threshold
RECURSIVE QualifyingPairs(_, _, _)
QualifyingPairs(pairs, sim, t) ==
    IF pairs = <<>> THEN <<>>
    ELSE LET i == Head(pairs)[1]
             j == Head(pairs)[2]
             rest == QualifyingPairs(Tail(pairs), sim, t)
         IN  IF sim[i][j] >= t THEN <<(<<i, j, sim[i][j]>>)>> \o rest ELSE rest

\* Variant of the sort key: the score as displayed.
SortKey_rounded(x) ==
    LET q == x[3] \div 10
        r == x[3] % 10
    IN  IF r < 5 THEN 10 * q
        ELSE IF r > 5 THEN 10 * (q + 1)
        ELSE IF q % 2 = 0 THEN 10 * q ELSE 10 * (q + 1)

\* key=lambda x: x[2]
SortKey(x) == x[3]

\* sorted(..., reverse=True) is stable: an element goes after every element
\* already placed whose key is greater or equal.
RECURSIVE InsertDesc(_, _)
InsertDesc(sorted, x) ==
    IF sorted = <<>> THEN <<x>>
    ELSE IF SortKey(Head(sorted)) >= SortKey(x)
            THEN <<Head(sorted)>> \o InsertDesc(Tail(sorted), x)
            ELSE <<x>> \o sorted

RECURSIVE SortedDesc(_, _)
SortedDesc(done, todo) ==
    IF todo = <<>> THEN done
    ELSE SortedDesc(InsertDesc(done, Head(todo)), Tail(todo))

\* Variant of the slice that keeps one element more.
Take_offByOne(seq, n) == SubSeq(seq, 1, IF Len(seq) < n + 1 THEN Len(seq) ELSE n + 1)

\* seq[:n]
Take(seq, n) == SubSeq(seq, 1, IF Len(seq) < n THEN Len(seq) ELSE n)

\* Variant of the extractor that ranks only the pairs of the displayed graph.
TopPairs_displayed(txts, sim, t) ==
    Take(SortedDesc(<<>>,
            QualifyingPairs(
                SelectSeq(PairSeq(Len(txts)),
                          LAMBDA p : p[1] \in G.nodes /\ p[2] \in G.nodes),
                sim, t)),
         top_n)

\* top_pairs = sorted(pairs, key=lambda x: x[2], reverse=True)[:top_n]
TopPairs(txts, sim, t) ==
    Take(SortedDesc(<<>>, QualifyingPairs(PairSeq(Len(txts)), sim, t)), top_n)

\* round(score, 3): to the nearest multiple of 0.001, halves to even.
Round3(score) ==
    LET q == score \div 10
        r == score % 10
    IN  IF r < 5 THEN 10 * q
        ELSE IF r > 5 THEN 10 * (q + 1)
        ELSE IF q % 2 = 0 THEN 10 * q ELSE 10 * (q + 1)

\* The rows of top_df.
TopFrame(txts, tp) ==
    [k \in 1..Len(tp) |->
        [A |-> txts[tp[k][1] + 1], B |-> txts[tp[k][2] + 1],
         score |-> Round3(tp[k][3])]]

(* ----------------------------- the script ------------------------------ *)

NoFrame == [c \in {} |-> <<>>]

\* What is remembered of the previous run of the session (history only).
NoPrev ==
    [valid |-> FALSE, text_col |-> "", threshold |-> 0, search_keyword |-> <<>>,
     error |-> "none", emitted |-> {}, built |-> FALSE, fullG |-> EmptyGraph,
     top_df |-> <<>>]

\* The values every run starts from.
FreshRun ==
    /\ pc' = "load"
    /\ error' = "none"
    /\ df' = NoFrame
    /\ text_col' = ""
    /\ threshold' = 3000
    /\ search_keyword' = <<>>
    /\ texts' = <<>>
    /\ similarity_matrix' = <<>>
    /\ G' = EmptyGraph
    /\ fullG' = EmptyGraph
    /\ pos' = <<>>
    /\ fig' = EmptyFigure
    /\ top_pairs' = <<>>
    /\ top_df' = <<>>
    /\ emitted' = {}

Init ==
    /\ csv \in CsvFiles
    /\ labelSim \in [MixedPairs -> MixedScores]
    /\ run = 1
    /\ prev = NoPrev
    /\ pc = "load"
    /\ error = "none"
    /\ df = NoFrame
    /\ text_col = ""
    /\ threshold = 3000
    /\ search_keyword = <<>>
    /\ texts = <<>>
    /\ similarity_matrix = <<>>
    /\ G = EmptyGraph
    /\ fullG = EmptyGraph
    /\ pos = <<>>
    /\ fig = EmptyFigure
    /\ top_pairs = <<>>
    /\ top_df = <<>>
    /\ emitted = {}

\* Variant of the error exit without st.stop(): the script carries on.
Stop_noHalt(kind) ==
    /\ error' = kind
    /\ pc' = "layout"

\* st.error / st.warning followed by st.stop()
Stop(kind) ==
    /\ error' = kind
    /\ pc' = "stopped"

\* try: df = pd.read_csv(csv_url) except: st.error(...); st.stop()
Load ==
    /\ pc = "load"
    /\ \/ /\ df' = csv
          /\ pc' = "widgets"
          /\ UNCHANGED error
       \/ /\ Stop("CorpusLoadError")
          /\ UNCHANGED df
    /\ UNCHANGED <<csv, labelSim, run, text_col, threshold, search_keyword,
                   texts, similarity_matrix, G, pos, fig, top_pairs, top_df,
                   emitted, fullG, prev>>

\* The selectbox, the slider and the text input, then the texts of the column.
Widgets ==
    /\ pc = "widgets"
    /\ \E c \in DOMAIN df : \E t \in Thresholds : \E raw \in RawKeywords :
          /\ text_col' = c
          /\ threshold' = t
          /\ search_keyword' = Strip(raw)
          /\ texts' = [k \in 1..Len(df[c]) |-> FillNa(df[c][k])]
    /\ pc' = "vectorize"
    /\ UNCHANGED <<csv, labelSim, run, error, df, similarity_matrix, G, pos,
                   fig, top_pairs, top_df, emitted, fullG, prev>>

\* fit_transform (st.stop() when it raises), then cosine_similarity.
Vectorize ==
    /\ pc = "vectorize"
    /\ IF EmptyVocabulary(texts)
          THEN /\ Stop("VectorizationError")
               /\ UNCHANGED similarity_matrix
          ELSE /\ similarity_matrix' = SimilarityMatrix(texts)
               /\ pc' = "build"
               /\ UNCHANGED error
    /\ UNCHANGED <<csv, labelSim, run, df, text_col, threshold, search_keyword,
                   texts, G, pos, fig, top_pairs, top_df, emitted, fullG, prev>>

\* G = nx.Graph(), the node loop and the edge loop.
Build ==
    /\ pc = "build"
    /\ G' = BuildGraph(texts, similarity_matrix, threshold)
    /\ fullG' = G'
    /\ pc' = "check"
    /\ UNCHANGED <<csv, labelSim, run, error, df, text_col, threshold,
                   search_keyword, texts, similarity_matrix, pos, fig,
                   top_pairs, top_df, emitted, prev>>

\* if G.number_of_nodes() == 0: stop; if G.number_of_edges() == 0: stop
CheckGraph ==
    /\ pc = "check"
    /\ IF Cardinality(G.nodes) = 0 THEN Stop("EmptyCorpusError")
       ELSE IF Cardinality(G.edges) = 0 THEN Stop("NoEdgesError")
       ELSE pc' = "filter" /\ UNCHANGED error
    /\ UNCHANGED <<csv, labelSim, run, df, text_col, threshold, search_keyword,
                   texts, similarity_matrix, G, pos, fig, top_pairs, top_df,
                   emitted, fullG, prev>>

\* if search_keyword: ... G = G.subgraph(sub_nodes).copy() / st.stop()
Filter ==
    /\ pc = "filter"
    /\ IF search_keyword # <<>>
          THEN IF MatchedNodes(G, search_keyword) # {}
                  THEN /\ G' = KeywordFilter(G, search_keyword)
                       /\ pc' = "layout"
                       /\ UNCHANGED error
                  ELSE /\ Stop("NoMatchError")
                       /\ UNCHANGED G
          ELSE /\ pc' = "layout"
               /\ UNCHANGED <<G, error>>
    /\ UNCHANGED <<csv, labelSim, run, df, text_col, threshold, search_keyword,
                   texts, similarity_matrix, pos, fig, top_pairs, top_df,
                   emitted, fullG, prev>>

\* pos = nx.spring_layout(G, seed=42), the traces and st.plotly_chart(fig).
Draw ==
    /\ pc = "layout"
    /\ pos' = SpringLayout(G)
    /\ fig' = Figure(G, pos')
    /\ emitted' = emitted \cup {"chart"}
    /\ pc' = "rank"
    /\ UNCHANGED <<csv, labelSim, run, error, df, text_col, threshold,
                   search_keyword, texts, similarity_matrix, G, top_pairs,
                   top_df, fullG, prev>>

\* pairs, top_pairs, top_df and st.dataframe(top_df).
Rank ==
    /\ pc = "rank"
    /\ top_pairs' = TopPairs(texts, similarity_matrix, threshold)
    /\ top_df' = TopFrame(texts, top_pairs')
    /\ emitted' = emitted \cup {"table"}
    /\ pc' = "done"
    /\ UNCHANGED <<csv, labelSim, run, error, df, text_col, threshold,
                   search_keyword, texts, similarity_matrix, G, pos, fig,
                   fullG, prev>>

\* A widget changes after the run has ended: Streamlit discards the page and
\* runs the script again from the top.
Rerun ==
    /\ pc \in {"done", "stopped"}
    /\ run < MaxRuns
    /\ run' = run + 1
    /\ prev' = [valid |-> TRUE, text_col |-> text_col, threshold |-> threshold,
                search_keyword |-> search_keyword, error |-> error,
                emitted |-> emitted,
                built |-> error \notin {"CorpusLoadError", "VectorizationError"},
                fullG |-> fullG, top_df |-> top_df]
    /\ FreshRun
    /\ UNCHANGED <<csv, labelSim>>

Next ==
    \/ Load
    \/ Widgets
    \/ Vectorize
    \/ Build
    \/ CheckGraph
    \/ Filter
    \/ Draw
    \/ Rank
    \/ Rerun

Spec == Init /\ [][Next]_vars

TypeOK ==
    /\ pc \in {"load", "widgets", "vectorize", "build", "check", "filter",
               "layout", "rank", "done", "stopped"}
    /\ error \in {"none", "CorpusLoadError", "VectorizationError",
                  "EmptyCorpusError", "NoEdgesError", "NoMatchError"}
    /\ run \in 1..MaxRuns
    /\ threshold \in Thresholds
    /\ emitted \subseteq {"chart", "table"}

(* ------------------------------ properties ----------------------------- *)

\* The run has executed the graph construction loops.
GraphBuilt ==
    \/ pc \in {"check", "filter", "layout", "rank", "done"}
    \/ pc = "stopped" /\ error \in {"EmptyCorpusError", "NoEdgesError", "NoMatchError"}

\* The run is over, and it got past the CSV download and the widgets.
RunEnded == pc \in {"done", "stopped"} /\ error # "CorpusLoadError"

\* kw occurs in s at some position (stated without Contains).
OccursIn(kw, s) ==
    \E a \in 1..(Len(s) + 1) :
        /\ a + Len(kw) - 1 <= Len(s)
        /\ \A k \in 1..Len(kw) : s[a + k - 1] = kw[k]

\* The pairs i < j whose score reaches the threshold.
Qualifying ==
    { p \in (0..(Len(texts) - 1)) \X (0..(Len(texts) - 1)) :
        p[1] < p[2] /\ similarity_matrix[p[1]][p[2]] >= threshold }

\* x comes before y in the ranking: higher score, or equal score and earlier
\* in the enumeration of the pairs.
RankedBefore(x, y) ==
    \/ x[3] > y[3]
    \/ x[3] = y[3] /\ (x[1] < y[1] \/ (x[1] = y[1] /\ x[2] < y[2]))

\* C1: once the graph construction loops have run, the graph has exactly the
\* nodes 0..N-1, each labelled with its text (isolated nodes included); for
\* all i < j the edge {i,j} is present iff sim[i][j] >= threshold, its weight
\* is sim[i][j], and no edge is a self-loop.
C1_GraphBuilder ==
    pc \in {"check", "filter"} =>
        LET N == Len(texts) IN
        /\ G.nodes = 0..(N - 1)
        /\ \A n \in G.nodes : G.label[n] = texts[n + 1]
        /\ \A i \in 0..(N - 1) : \A j \in 0..(N - 1) :
              i < j => (({i, j} \in G.edges) <=> (similarity_matrix[i][j] >= threshold))
        /\ \A e \in G.edges :
              /\ Cardinality(e) = 2
              /\ e \subseteq G.nodes
              /\ \A i \in e : \A j \in e :
                    i < j => G.weight[e] = similarity_matrix[i][j]
        /\ DOMAIN G.weight = G.edges

\* A built graph with an edge, a missing edge and an isolated node, and an
\* edge whose score is exactly the threshold.
C1_Witness ==
    /\ pc = "check"
    /\ Len(texts) >= 3
    /\ G.edges # {}
    /\ \E n \in G.nodes : Neighbors(G, n) = {}
    /\ \E e \in G.edges : G.weight[e] = threshold

\* C2: for the same corpus and similarity matrix, the edge set built at the
\* higher of two thresholds is a subset of the edge set built at the lower
\* one (compared between two runs of the session).
C2_ThresholdMonotone ==
    (prev.valid /\ prev.built /\ GraphBuilt /\ prev.text_col = text_col) =>
        /\ prev.threshold < threshold => fullG.edges \subseteq prev.fullG.edges
        /\ threshold < prev.threshold => prev.fullG.edges \subseteq fullG.edges

\* The second run raised the threshold and lost some edges, not all.
C2_Witness ==
    /\ prev.valid /\ prev.built /\ GraphBuilt /\ prev.text_col = text_col
    /\ prev.threshold < threshold
    /\ fullG.edges # {}
    /\ fullG.edges # prev.fullG.edges

\* C3: with a non-empty keyword that some label contains, the displayed graph
\* is the subgraph of the full graph induced by M \cup N(M), M the nodes whose
\* label contains the keyword and N(M) their direct neighbours: same labels,
\* and exactly the full graph's edges (and weights) inside that node set.
C3_InducedNeighbourhood ==
    (pc = "layout" /\ search_keyword # <<>>) =>
        LET M  == {n \in fullG.nodes : OccursIn(search_keyword, fullG.label[n])}
            NM == {m \in fullG.nodes : \E n \in M : {n, m} \in fullG.edges}
            K  == M \cup NM
        IN  /\ M # {}
            /\ G.nodes = K
            /\ \A n \in K : G.label[n] = fullG.label[n]
            /\ G.edges = {e \in fullG.edges : e \subseteq K}
            /\ DOMAIN G.weight = G.edges
            /\ \A e \in G.edges : G.weight[e] = fullG.weight[e]

\* The filter dropped a node, kept a neighbour that does not match, and kept
\* an edge between two nodes that do not match.
C3_Witness ==
    /\ pc = "layout"
    /\ search_keyword # <<>>
    /\ G.nodes # fullG.nodes
    /\ \E e \in G.edges : \A n \in e : ~OccursIn(search_keyword, G.label[n])

\* C4: filtering the filtered graph again with the same keyword gives the
\* same graph: the keyword still matches, and nodes, labels, edges and
\* weights are unchanged.
C4_FilterIdempotent ==
    (pc = "layout" /\ search_keyword # <<>>) =>
        /\ MatchedNodes(G, search_keyword) # {}
        /\ KeywordFilter(G, search_keyword) = G

\* The first application changed the graph.
C4_Witness ==
    /\ pc = "layout"
    /\ search_keyword # <<>>
    /\ G # fullG
    /\ G.edges # {}
    /\ \E n \in G.nodes : ~OccursIn(search_keyword, G.label[n])

C6_LengthAndOrder ==
    pc = "done" =>
        /\ Len(top_pairs) <= top_n
        /\ Len(top_pairs) <= Cardinality(Qualifying)
        /\ Len(top_df) = Len(top_pairs)
        /\ \A k \in 1..(Len(top_pairs) - 1) :
              /\ top_pairs[k][3] >= top_pairs[k + 1][3]
              /\ top_df[k].score >= top_df[k + 1].score

\* More than top_n pairs qualify, and the list holds different scores.
C6_Witness ==
    /\ pc = "done"
    /\ Cardinality(Qualifying) > top_n
    /\ Len(top_pairs) = top_n
    /\ top_pairs[1][3] > top_pairs[top_n][3]

\* C7: a run that signals an error has stopped with no chart, no layout and
\* no ranked table, and the only step that can follow is the start of a new
\* run with a blank page.
C7_ErrorsHalt ==
    [][ /\ error' # "none" =>
              /\ pc' = "stopped"
              /\ emitted' = {}
              /\ DOMAIN pos' = {}
              /\ fig' = EmptyFigure
              /\ top_pairs' = <<>>
              /\ top_df' = <<>>
        /\ error # "none" =>
              /\ run' = run + 1
              /\ pc' = "load"
              /\ error' = "none"
              /\ emitted' = {} ]_vars

\* A run stopped by the keyword filter, after the graph was built.
C7_Witness ==
    /\ pc = "stopped"
    /\ error = "NoMatchError"
    /\ fullG.edges # {}
    /\ emitted = {}

\* C8 (as claimed): a run whose keyword is non-empty and contained in no node
\* label ends by signalling NoMatchError and emits no graph.
C8_NoMatchAlways ==
    (RunEnded /\ GraphBuilt /\ search_keyword # <<>>
       /\ \A n \in fullG.nodes : ~OccursIn(search_keyword, fullG.label[n])) =>
        /\ error = "NoMatchError"
        /\ "chart" \notin emitted

\* C8 (amended): a run whose keyword is non-empty and contained in no node
\* label emits no graph; it ends by signalling NoMatchError when the graph
\* has at least one edge, and by signalling NoEdgesError, before the keyword
\* is looked at, when it has none.
C8_NoMatchWhenEdges ==
    (RunEnded /\ GraphBuilt /\ search_keyword # <<>>
       /\ \A n \in fullG.nodes : ~OccursIn(search_keyword, fullG.label[n])) =>
        /\ "chart" \notin emitted
        /\ pc = "stopped"
        /\ fullG.edges # {} => error = "NoMatchError"
        /\ fullG.edges = {} => error = "NoEdgesError"

\* A graph with edges and an empty label, and a keyword found in no label.
C8_Witness ==
    /\ pc = "stopped"
    /\ error = "NoMatchError"
    /\ search_keyword # <<>>
    /\ fullG.edges # {}
    /\ \E n \in fullG.nodes : fullG.label[n] = <<>>
    /\ \A n \in fullG.nodes : ~OccursIn(search_keyword, fullG.label[n])

\* C9 (as claimed): a run on a corpus with zero rows fails by signalling
\* EmptyCorpusError, raised by the zero-node check after graph construction.
C9_EmptyCorpusError ==
    (RunEnded /\ text_col # "" /\ Len(texts) = 0) =>
        /\ error = "EmptyCorpusError"
        /\ GraphBuilt

\* C10: the ranked pair list is the first min(top_n, q) elements of the q
\* qualifying pairs ordered by descending unrounded score, equal scores in
\* ascending (i, j) order; the displayed rows are those pairs with the score
\* rounded to 3 decimals.
C10_RankedPrefix ==
    pc = "done" =>
        LET Q == {<<p[1], p[2], similarity_matrix[p[1]][p[2]]>> : p \in Qualifying}
            n == Len(top_pairs)
            Listed == {top_pairs[k] : k \in 1..n}
        IN  /\ n = (IF Cardinality(Q) < top_n THEN Cardinality(Q) ELSE top_n)
            /\ Listed \subseteq Q
            /\ \A k \in 1..n : \A l \in 1..n :
                  k < l => RankedBefore(top_pairs[k], top_pairs[l])
            /\ \A q \in Q \ Listed : \A k \in 1..n : RankedBefore(top_pairs[k], q)
            /\ Len(top_df) = n
            /\ \A k \in 1..n :
                  /\ top_df[k].A = texts[top_pairs[k][1] + 1]
                  /\ top_df[k].B = texts[top_pairs[k][2] + 1]
                  /\ top_df[k].score % 10 = 0
                  /\ top_df[k].score - top_pairs[k][3] \in -5..5

\* Two listed pairs whose scores differ but are displayed as the same
\* number, the higher one listed first although it is enumerated later.
C10_Witness ==
    /\ pc = "done"
    /\ \E k \in 1..(Len(top_pairs) - 1) :
          /\ top_pairs[k][3] > top_pairs[k + 1][3]
          /\ top_df[k].score = top_df[k + 1].score
          /\ top_pairs[k + 1][1] < top_pairs[k][1]

====
